---- MODULE Spec2Model ----
(***************************************************************************)
(* Model of the containerd image-service adapter of the daemon:            *)
(*   daemon/containerd/image_changes.go   ImageService.Changes             *)
(*   daemon/containerd/image_exporter.go  ImageService.ExportImage, ...    *)
(*   daemon/containerd/image.go           ImageService.resolveImage, ...   *)
(***************************************************************************)
EXTENDS Integers, Sequences, FiniteSets, TLC

(***************************************************************************)
(* Go error values.  An error is a sequence of frames, outermost first;    *)
(* a frame is the text that layer contributes.  nil is the empty sequence. *)
(* Unwrap is Tail: the wrapped cause of fmt.Errorf("...%w", e) is e.       *)
(***************************************************************************)
NoErr == <<>>

NewErr(text) == << <<text>> >>

RECURSIVE ErrorText(_)
ErrorText(e) == IF e = <<>> THEN <<>> ELSE Head(e) \o ErrorText(Tail(e))

\* fmt.Errorf(prefix + ": %w", cause) and errors.Wrap(cause, prefix)
Wrapf(prefix, cause) == <<prefix>> \o cause

Unwrap(e) == IF e = <<>> THEN <<>> ELSE Tail(e)

\* errors.Is(e, target): target is e or a cause on e's Unwrap chain
RECURSIVE ErrorsIs(_, _)
ErrorsIs(e, target) ==
    IF e = <<>> THEN FALSE
    ELSE IF e = target THEN TRUE
    ELSE ErrorsIs(Tail(e), target)

(***************************************************************************)
(* State: one ImageService.Changes call with the snapshotter and mount     *)
(* table it acts on; the image store; resolveImage calls.                  *)
(***************************************************************************)
VARIABLES
    pc,         \* position of the Changes call
    ctxDone,    \* the caller's context is cancelled
    err,        \* named result err of Changes
    uerr,       \* local uerr of Changes
    changes,    \* named result changes of Changes
    mounts,     \* local mounts: "nil" or the container's mount set
    rnd,        \* the random view key, NoKey until drawn
    parent,     \* local parent: "nil" or the mounts of the created view
    cbErr,      \* value returned so far by the WithTempMount closures
    snapshots,  \* keys the snapshotter holds
    mounted,    \* temporary mountpoints currently mounted
    calls,      \* engine calls made so far, in order, each with whether it succeeded
    \* the image store and the content store of the content engine
    images,     \* the stored image records
    blobs,      \* the digests whose blob the content store holds
    \* ExportImage calls, each field a function of the call
    exPc,       \* position of the call
    exCtxDone,  \* the call's context is cancelled
    exNames,    \* names
    exIdx,      \* how many of names the loop has been through
    exImg,      \* optForImageExport: img, for an index
    exProbe,    \* optForImageExport: the child being probed
    exPresent,  \* optForImageExport: presentPlatforms
    exMissing,  \* optForImageExport: missingPlatforms
    exOpts,     \* the export options appended to opts
    exDeferred, \* names of the deferred Delete calls, in the order registered
    exErr,      \* the error the call returns
    exArchive,  \* what client.Export wrote to outStream
    exCalls,    \* Convert, Export and Delete calls of the call so far, in order
    uuids,      \* how many uuids uuid.NewString has given out
    \* the arguments and outcomes of resolveImage calls
    argRefOrID, \* refOrID
    argPlatform,\* platform, NoPlatform for nil
    argFault,   \* the engine call that fails during the calls, "none" if none does
    results,    \* what the resolveImage calls made so far returned
    \* the LoadImage call
    ldPc,       \* position of the call
    ldArchive,  \* the images in the archive read from inTar
    ldImgs,     \* imgs, as returned by client.Import
    ldIdx,      \* how many of imgs the loop has been through
    ldErr,      \* the error the call returns
    ldCalls,    \* Import, IsUnpacked and Unpack calls so far, in order, with their outcome
    unpacked,   \* the images the snapshotter holds an unpacked chain for
    \* the arguments and results of the functions without state
    rfChild,    \* isRootfsChildOf: the diff IDs of child
    rfParent,   \* isRootfsChildOf: the diff IDs of parent
    rfResult,   \* isRootfsChildOf: the results returned so far
    hdDesc,     \* presentChildrenHandler: desc
    hdFault,    \* presentChildrenHandler: the engine call that fails, "none" if none does
    hdResult    \* presentChildrenHandler: the results returned so far

chVars == <<pc, ctxDone, err, uerr, changes, mounts, rnd, parent, cbErr, snapshots, mounted, calls>>

stVars == <<images, blobs>>

exVars == <<exPc, exCtxDone, exNames, exIdx, exImg, exProbe, exPresent, exMissing, exOpts,
            exDeferred, exErr, exArchive, exCalls, uuids>>

rsVars == <<argRefOrID, argPlatform, argFault, results>>

ldVars == <<ldPc, ldArchive, ldImgs, ldIdx, ldErr, ldCalls, unpacked>>

fnVars == <<rfChild, rfParent, rfResult, hdDesc, hdFault, hdResult>>

vars == <<chVars, stVars, rsVars, exVars, ldVars, fnVars>>

\* what a Changes call leaves alone
notChanges == <<stVars, rsVars, exVars, ldVars, fnVars>>

\* what a resolveImage call leaves alone
notResolve == <<chVars, stVars, exVars, ldVars, fnVars>>



(***************************************************************************)
(* References, image records and the image store (image.go).               *)
(* A string is a sequence of tokens: single hex characters, and chunks     *)
(* such as "foo", ":latest", "@sha256:".  A digest is the sequence of the  *)
(* hex characters that follow "sha256:".                                   *)
(***************************************************************************)
HexChars == {"0", "1", "2", "3", "4", "5", "6", "7", "8", "9", "a", "b", "c", "d", "e", "f"}

\* shortID = regexp.MustCompile(`^([a-f0-9]{4,64})$`)
ShortIDMin == 4

ShortIDMax == 64

\* length of the hex part of a sha256 digest: 64-len(refOrID) in the digest filter
DigestHexLen == 64

IsHexString(s) == \A i \in DOMAIN s : s[i] \in HexChars

shortID(s) == IsHexString(s) /\ Len(s) >= ShortIDMin /\ Len(s) <= ShortIDMax

\* path components a repository name may be made of, and tags
RepoWords == {"foo", "bar", "baz", "moby-dangling"}

Tags == {":latest", ":v1"}

\* uuid.NewString(): the n-th uuid given out
UUIDStrings == <<"uuid-1", "uuid-2", "uuid-3", "uuid-4", "uuid-5", "uuid-6", "uuid-7", "uuid-8">>

\* chunks a tag may go on with: the tag grammar [\w][\w.-]{0,127} takes the
\* suffix of a temporary export name
TagWords == {"-tmp-export"} \cup {UUIDStrings[i] : i \in DOMAIN UUIDStrings}

DefaultDomain == "docker.io/library/"

IsDigest(d) == Len(d) = DigestHexLen /\ IsHexString(d)

IsRepo(r) == Len(r) > 0 /\ \A i \in DOMAIN r : r[i] \in HexChars \cup RepoWords

NoRef == [ok |-> FALSE, digested |-> FALSE, name |-> <<>>, tag |-> <<>>, digest |-> <<>>]

\* reference.ParseNormalizedNamed: [domain/]name[:tag][@digest], the default
\* domain put in front when there is none; a name that is 64 hex characters
\* is refused.
ParseNormalizedNamed(ref) ==
    LET ats   == {i \in DOMAIN ref : ref[i] = "@sha256:"}
        at    == IF ats = {} THEN Len(ref) + 1 ELSE CHOOSE i \in ats : \A j \in ats : i <= j
        front == SubSeq(ref, 1, at - 1)
        dgst  == SubSeq(ref, at + 1, Len(ref))
        colons == {i \in DOMAIN front : front[i] \in Tags}
        colon == IF colons = {} THEN Len(front) + 1
                 ELSE CHOOSE i \in colons : \A j \in colons : i <= j
        tagged == /\ colons # {}
                  /\ \A i \in (colon + 1)..Len(front) : front[i] \in TagWords
        named == IF tagged THEN SubSeq(front, 1, colon - 1) ELSE front
        repo  == IF Len(named) > 0 /\ Head(named) = DefaultDomain THEN Tail(named) ELSE named
    IN  IF /\ IsRepo(repo)
           /\ ~(IsHexString(repo) /\ Len(repo) = DigestHexLen)
           /\ (ats # {} => IsDigest(dgst))
        THEN [ok |-> TRUE, digested |-> ats # {}, name |-> <<DefaultDomain>> \o repo,
              tag |-> IF tagged THEN SubSeq(front, colon, Len(front)) ELSE <<>>,
              digest |-> dgst]
        ELSE NoRef

\* reference.ParseAnyReference: a 64-character identifier or a full digest
\* is a digest reference; anything else is parsed as a normalized name.
ParseAnyReference(ref) ==
    IF IsHexString(ref) /\ Len(ref) = DigestHexLen
    THEN [ok |-> TRUE, digested |-> TRUE, name |-> <<>>, tag |-> <<>>, digest |-> ref]
    ELSE IF Len(ref) > 0 /\ Head(ref) = "sha256:" /\ IsDigest(Tail(ref))
    THEN [ok |-> TRUE, digested |-> TRUE, name |-> <<>>, tag |-> <<>>, digest |-> Tail(ref)]
    ELSE ParseNormalizedNamed(ref)

\* namedRef.String()
RefString(r) ==
    r.name \o r.tag
           \o (IF r.digested THEN <<"@sha256:">> \o r.digest ELSE <<>>)

\* reference.ParseNamed: the string must already be in canonical form
ParseNamed(s) ==
    LET r == ParseNormalizedNamed(s)
    IN  IF r.ok /\ RefString(r) = s THEN r ELSE NoRef

\* reference.TagNameOnly: adds :latest to a name with neither tag nor digest
TagNameOnly(r) ==
    IF r.tag = <<>> /\ ~r.digested THEN [r EXCEPT !.tag = <<":latest">>] ELSE r

\* platforms: an ocispec.Platform
Platform(os, arch, variant) == [OS |-> os, Architecture |-> arch, Variant |-> variant]

\* platforms.Format
FormatPlatform(p) ==
    <<p.OS, "/", p.Architecture>> \o (IF p.Variant = "" THEN <<>> ELSE <<"/", p.Variant>>)

ArmVariants == <<"v5", "v6", "v7", "v8">>

ArmMajor(v) == CHOOSE i \in DOMAIN ArmVariants : ArmVariants[i] = v

\* platforms.platformVector: the platform itself and the older ones it can run
platformVector(p) ==
    LET olderArm(v) == {Platform(p.OS, "arm", ArmVariants[i]) : i \in 1..(ArmMajor(v) - 1)}
    IN  {p} \cup
        CASE p.Architecture = "amd64" -> {Platform(p.OS, "386", "")}
          [] p.Architecture = "arm" /\ p.Variant \in {"v6", "v7", "v8"} -> olderArm(p.Variant)
          [] p.Architecture = "arm64" ->
                {Platform(p.OS, "arm", "v8")} \cup olderArm("v8")
          [] OTHER -> {}

\* platforms.Only(platform).Match(p)
OnlyMatch(platform, p) == p \in platformVector(platform)

\* platforms.OnlyStrict(platform).Match(p): os, architecture and variant all equal
OnlyStrictMatch(platform, p) == p = platform

\* errdefs.NotFound(errors.New(text)), errdefs.InvalidParameter(err)
NotFound(text) == << <<"NotFound">>, text >>

InvalidParameter(e) == << <<"InvalidParameter">> >> \o e

IsNotFound(e) == e # <<>> /\ Head(e) = <<"NotFound">>

\* containerdimages.Image{}
NoImage == [Name |-> <<>>, Target |-> [Digest |-> <<>>, MediaType |-> ""]]

Image(name, digest, mediaType) ==
    [Name |-> name, Target |-> [Digest |-> digest, MediaType |-> mediaType]]

\* The filter target.digest~=/sha256:<id>[0-9a-fA-F]{64-len(id)}/ on a digest
DigestFilterMatch(d, id) ==
    /\ Len(d) >= Len(id) + (DigestHexLen - Len(id))
    /\ SubSeq(d, 1, Len(id)) = id
    /\ IsHexString(SubSeq(d, Len(id) + 1, DigestHexLen))

\* nil *ocispec.Platform
NoPlatform == Platform("", "", "")

(***************************************************************************)
(* The content the model's stores refer to: an index with two platform     *)
(* manifests, which are also image targets of their own.                   *)
(***************************************************************************)
PadDigest(prefix) == prefix \o [i \in 1..(DigestHexLen - Len(prefix)) |-> "0"]

DigestIndex == PadDigest(<<"d", "e", "a", "d", "0">>)

DigestManifestA == PadDigest(<<"d", "e", "a", "d", "1">>)

DigestManifestB == PadDigest(<<"b", "e", "e", "f">>)

Digests == {DigestIndex, DigestManifestA, DigestManifestB}

\* the indexes converter.Convert derives from DigestIndex: with manifest A
\* only, with manifest B only, with no manifest
DigestDerivedA == PadDigest(<<"c", "0", "0", "a">>)

DigestDerivedB == PadDigest(<<"c", "0", "0", "b">>)

DigestDerivedNone == PadDigest(<<"c", "0", "0", "0">>)

DerivedDigests == {DigestDerivedA, DigestDerivedB, DigestDerivedNone}

\* an index one of whose manifest entries carries no platform (the field is
\* optional in an index), and that manifest
DigestIndexBare == PadDigest(<<"f", "e", "e", "d">>)

DigestManifestC == PadDigest(<<"c", "a", "f", "e">>)

IndexDigests == {DigestIndex, DigestIndexBare} \cup DerivedDigests

LinuxAmd64 == Platform("linux", "amd64", "")

LinuxArmV6 == Platform("linux", "arm", "v6")

LinuxArmV7 == Platform("linux", "arm", "v7")

MediaTypeOf(d) == IF d \in IndexDigests THEN "index" ELSE "manifest"

\* containerdimages.IsIndexType, containerdimages.IsManifestType
IsIndexType(mediaType) == mediaType = "index"

IsManifestType(mediaType) == mediaType = "manifest"

Descriptor(d, platform) == [Digest |-> d, MediaType |-> MediaTypeOf(d), Platform |-> platform]

\* containerdimages.Children(ctx, store, desc): the manifests an index lists
Children(d) ==
    CASE d = DigestIndex ->
            <<Descriptor(DigestManifestA, LinuxAmd64), Descriptor(DigestManifestB, LinuxArmV6)>>
      [] d = DigestIndexBare ->
            <<Descriptor(DigestManifestA, LinuxAmd64), Descriptor(DigestManifestC, NoPlatform)>>
      [] d = DigestDerivedA -> <<Descriptor(DigestManifestA, LinuxAmd64)>>
      [] d = DigestDerivedB -> <<Descriptor(DigestManifestB, LinuxArmV6)>>
      [] OTHER -> <<>>

\* containerdimages.Platforms(ctx, cs, target): the platforms reachable from a target
Platforms(d) ==
    CASE d = DigestIndex -> {LinuxAmd64, LinuxArmV6}
      [] d \in {DigestManifestA, DigestDerivedA, DigestIndexBare} -> {LinuxAmd64}
      [] d \in {DigestManifestB, DigestDerivedB} -> {LinuxArmV6}
      [] OTHER -> {}

SeqToSet(q) == {q[i] : i \in DOMAIN q}

\* the loop of resolveImage over the listed records: the first record named
\* ref, NoImage when there is none
RECURSIVE FirstNamed(_, _)
FirstNamed(imgs, ref) ==
    IF imgs = <<>> THEN NoImage
    ELSE IF Head(imgs).Name = ref THEN Head(imgs)
    ELSE FirstNamed(Tail(imgs), ref)

Resolved(img, e) == [img |-> img, err |-> e]

\* Mutant of resolveShortID: the digests are compared before the names.
resolveShortIDDigestsFirst(order, refOrID, ref, listErr) ==
    LET imgs == SelectSeq(order, LAMBDA img :
                    img.Name = ref \/ DigestFilterMatch(img.Target.Digest, refOrID))
        named == FirstNamed(imgs, ref)
        digests == {imgs[i].Target.Digest : i \in DOMAIN imgs}
    IN  IF listErr # NoErr THEN Resolved(NoImage, listErr)
        ELSE IF Len(imgs) = 0 THEN Resolved(NoImage, NotFound(<<"list returned no images">>))
        ELSE IF Len(imgs) > 1 /\ Cardinality(digests) > 1
             THEN Resolved(NoImage, NotFound(<<"ambiguous reference">>))
        ELSE IF Len(imgs) > 1 /\ named # NoImage THEN Resolved(named, NoErr)
        ELSE Resolved(imgs[1], NoErr)

\* Mutant of resolveShortID: several matches are ambiguous even when they
\* share one digest.
resolveShortIDCountsRecords(order, refOrID, ref, listErr) ==
    LET imgs == SelectSeq(order, LAMBDA img :
                    img.Name = ref \/ DigestFilterMatch(img.Target.Digest, refOrID))
        named == FirstNamed(imgs, ref)
    IN  IF listErr # NoErr THEN Resolved(NoImage, listErr)
        ELSE IF Len(imgs) = 0 THEN Resolved(NoImage, NotFound(<<"list returned no images">>))
        ELSE IF Len(imgs) > 1 /\ named # NoImage THEN Resolved(named, NoErr)
        ELSE IF Len(imgs) > 1
             THEN Resolved(NoImage, NotFound(<<"ambiguous reference">>))
        ELSE Resolved(imgs[1], NoErr)

\* Mutant of resolveShortID: the first listed match is returned, whatever
\* the other matches are.
resolveShortIDTakesFirst(order, refOrID, ref, listErr) ==
    LET imgs == SelectSeq(order, LAMBDA img :
                    img.Name = ref \/ DigestFilterMatch(img.Target.Digest, refOrID))
    IN  IF listErr # NoErr THEN Resolved(NoImage, listErr)
        ELSE IF Len(imgs) = 0 THEN Resolved(NoImage, NotFound(<<"list returned no images">>))
        ELSE Resolved(imgs[1], NoErr)

\* resolveImage, the branch for an identifier that could be a short ID.
\* order: all the stored records, in the order the engine lists them.
resolveShortID(order, refOrID, ref, listErr) ==
    LET imgs == SelectSeq(order, LAMBDA img :
                    img.Name = ref \/ DigestFilterMatch(img.Target.Digest, refOrID))
        named == FirstNamed(imgs, ref)
        digests == {imgs[i].Target.Digest : i \in DOMAIN imgs}
    IN  IF listErr # NoErr THEN Resolved(NoImage, listErr)
        ELSE IF Len(imgs) = 0 THEN Resolved(NoImage, NotFound(<<"list returned no images">>))
        ELSE IF Len(imgs) > 1 /\ named # NoImage THEN Resolved(named, NoErr)
        ELSE IF Len(imgs) > 1 /\ Cardinality(digests) > 1
             THEN Resolved(NoImage, NotFound(<<"ambiguous reference">>))
        ELSE Resolved(imgs[1], NoErr)

\* resolveImage, the branch for a name: is.Get and then the platform filter
resolveNamed(order, ref, platform, getErr, platformsErr) ==
    LET found == SelectSeq(order, LAMBDA img : img.Name = ref)
    IN  IF getErr # NoErr THEN Resolved(NoImage, getErr)
        ELSE IF found = <<>> THEN Resolved(NoImage, NotFound(<<"id not found">>))
        ELSE LET img == found[1]
             IN  IF platform = NoPlatform THEN Resolved(img, NoErr)
                 ELSE IF platformsErr # NoErr THEN Resolved(img, platformsErr)
                 ELSE IF \E p \in Platforms(img.Target.Digest) : OnlyMatch(platform, p)
                      THEN Resolved(img, NoErr)
                 ELSE Resolved(img, NotFound(<<"platform">> \o FormatPlatform(platform)
                                                \o <<"not supported">>))

\* i.resolveImage(ctx, refOrID, platform).  order: all the stored records in
\* the order the engine lists them; fault: the engine call that fails, if
\* any ("context canceled": ctx is cancelled and every engine call fails).
resolveImage(order, refOrID, platform, fault) ==
    LET parsed == ParseAnyReference(refOrID)
        engineErr(call) == IF fault = "context canceled" THEN NewErr("context canceled")
                           ELSE IF fault = call THEN NewErr(call)
                           ELSE NoErr
    IN  IF ~parsed.ok THEN Resolved(NoImage, InvalidParameter(NewErr("invalid reference format")))
        ELSE IF parsed.digested THEN
            LET imgs == SelectSeq(order, LAMBDA img : img.Target.Digest = parsed.digest)
            IN  IF engineErr("List") # NoErr
                THEN Resolved(NoImage, Wrapf(<<"failed to lookup digest">>, engineErr("List")))
                ELSE IF Len(imgs) = 0
                THEN Resolved(NoImage, NotFound(<<"image not found with digest">>))
                ELSE Resolved(imgs[1], NoErr)
        ELSE LET namedRef == TagNameOnly(parsed)
             IN  IF shortID(refOrID)
                 THEN resolveShortID(order, refOrID, RefString(namedRef), engineErr("List"))
                 ELSE resolveNamed(order, RefString(namedRef), platform,
                                   engineErr("Get"), engineErr("Platforms"))

\* the records of a store that the filter of the List call (or the name of
\* the Get call) of resolveImage selects for refOrID: those that resolve
\* when listed alone
Listed(store, refOrID) ==
    {img \in store : resolveImage(<<img>>, refOrID, NoPlatform, "none").img = img}

\* every order in which the engine may list the records of a store
RECURSIVE Orders(_)
Orders(store) ==
    IF store = {} THEN {<<>>}
    ELSE UNION {{<<img>> \o q : q \in Orders(store \ {img})} : img \in store}



(***************************************************************************)
(* ExportImage calls (image_exporter.go): the calls and their idle state.  *)
(***************************************************************************)
ExportCalls == {"export1", "export2"}

ExportIdle ==
    /\ exPc = [p \in ExportCalls |-> "idle"]
    /\ exCtxDone = [p \in ExportCalls |-> FALSE]
    /\ exNames = [p \in ExportCalls |-> <<>>]
    /\ exIdx = [p \in ExportCalls |-> 0]
    /\ exImg = [p \in ExportCalls |-> NoImage]
    /\ exProbe = [p \in ExportCalls |-> 0]
    /\ exPresent = [p \in ExportCalls |-> <<>>]
    /\ exMissing = [p \in ExportCalls |-> <<>>]
    /\ exOpts = [p \in ExportCalls |-> <<>>]
    /\ exDeferred = [p \in ExportCalls |-> <<>>]
    /\ exErr = [p \in ExportCalls |-> NoErr]
    /\ exArchive = [p \in ExportCalls |-> <<>>]
    /\ exCalls = [p \in ExportCalls |-> <<>>]
    /\ uuids = 0

\* no LoadImage call is made
LoadIdle ==
    /\ ldPc = "idle"
    /\ ldArchive = <<>>
    /\ ldImgs = <<>>
    /\ ldIdx = 0
    /\ ldErr = NoErr
    /\ ldCalls = <<>>
    /\ unpacked = {}

\* isRootfsChildOf and presentChildrenHandler are not called
FunctionsIdle ==
    /\ rfChild = <<>>
    /\ rfParent = <<>>
    /\ rfResult = <<>>
    /\ hdDesc = Descriptor(<<>>, NoPlatform)
    /\ hdFault = "none"
    /\ hdResult = <<>>

(***************************************************************************)
(* resolveImage calls on a store: the inputs are drawn in the initial      *)
(* state, and each call lists the store in an order of the engine's.       *)
(***************************************************************************)
NameDead == <<DefaultDomain, "d", "e", "a", "d", ":latest">>

NameFoo == <<DefaultDomain, "foo", ":latest">>

NameBar == <<DefaultDomain, "bar", ":latest">>

StoreNames == {NameDead, NameFoo, NameBar}

\* the stores: records with distinct names, each targeting one of the digests
Stores ==
    UNION {{ {Image(n, f[n], MediaTypeOf(f[n])) : n \in S} : f \in [S -> Digests]} :
           S \in SUBSET StoreNames}

RefInputs ==
    { <<"d", "e", "a", "d">>,
      <<"d", "e", "a">>,
      <<"b", "e", "e", "f">>,
      DigestIndex,
      <<"sha256:">> \o DigestManifestA,
      <<"foo", "@sha256:">> \o DigestManifestA,
      <<"foo">>,
      <<"bar", ":latest">>,
      <<"foo", ":v1">>,
      <<"Foo">> }

PlatformInputs == {NoPlatform, LinuxAmd64, LinuxArmV6, LinuxArmV7}

FaultInputs == {"none", "List", "Get", "Platforms", "context canceled"}

\* Number of resolveImage calls made on one store
MaxResolveCalls == 2

ResolveIdle ==
    /\ argRefOrID = <<>>
    /\ argPlatform = NoPlatform
    /\ argFault = "none"
    /\ results = <<>>

StoreIdle == images = {} /\ blobs = {}

ResolveInputs ==
    /\ images \in Stores
    /\ argRefOrID \in RefInputs
    /\ argPlatform \in PlatformInputs
    /\ argFault \in FaultInputs
    /\ results = <<>>

\* img, err := i.resolveImage(ctx, refOrID, platform)
ResolveImage ==
    /\ Len(results) < MaxResolveCalls
    /\ \E order \in Orders(images) :
        results' = Append(results, resolveImage(order, argRefOrID, argPlatform, argFault))
    /\ UNCHANGED <<argRefOrID, argPlatform, argFault>>
    /\ UNCHANGED notResolve

(***************************************************************************)
(* ImageService.Changes (image_changes.go).                                *)
(***************************************************************************)
\* Number of random view keys the model draws from
NumUUIDs == 2

UUIDs == {<<"uuid", n>> : n \in 1..NumUUIDs}

NoKey == <<"none", 0>>

ContainerID == <<"container", 0>>

\* An engine call given ctx aborts once ctx is cancelled; otherwise it may succeed or fail.
CtxOutcomes(name) ==
    IF ctxDone THEN {NewErr("context canceled")} ELSE {NoErr, NewErr(name)}

\* A call that takes no ctx (mount, unmount, directory diff) succeeds or fails on its own.
Outcomes(name) == {NoErr, NewErr(name)}

Called(name, r) == calls' = Append(calls, <<name, r = NoErr>>)

InitChanges ==
    /\ pc = "Mounts"
    /\ ctxDone = FALSE
    /\ err = NoErr
    /\ uerr = NoErr
    /\ changes = "nil"
    /\ mounts = "nil"
    /\ rnd = NoKey
    /\ parent = "nil"
    /\ cbErr = NoErr
    /\ \E others \in SUBSET UUIDs : snapshots = {ContainerID} \cup others
    /\ mounted = {}
    /\ calls = <<>>
    /\ StoreIdle
    /\ ResolveIdle
    /\ ExportIdle
    /\ LoadIdle
    /\ FunctionsIdle

\* ctx is cancelled by the caller while the call is in progress
Cancel ==
    /\ pc \notin {"returned", "panicked"}
    /\ ~ctxDone
    /\ ctxDone' = TRUE
    /\ UNCHANGED <<pc, err, uerr, changes, mounts, rnd, parent, cbErr, snapshots, mounted, calls>>
    /\ UNCHANGED notChanges

\* return nil, uerr   (before the defer is registered)
ReturnEarly(e) ==
    /\ changes' = "nil"
    /\ err' = e
    /\ pc' = "returned"

\* mounts, uerr := snapshotter.Mounts(ctx, container.ID); if err != nil { return nil, uerr }
Mounts ==
    /\ pc = "Mounts"
    /\ \E r \in CtxOutcomes("Mounts") :
        /\ uerr' = r
        /\ mounts' = IF r = NoErr THEN "containerMounts" ELSE "nil"
        /\ Called("Mounts", r)
        /\ IF err # NoErr
           THEN ReturnEarly(r)
           ELSE /\ pc' = "getImage"
                /\ UNCHANGED <<err, changes>>
    /\ UNCHANGED <<ctxDone, rnd, parent, cbErr, snapshots, mounted>>
    /\ UNCHANGED notChanges

\* baseImg, _, uerr := i.getImage(...); if uerr != nil { return nil, uerr }
GetImage ==
    /\ pc = "getImage"
    /\ \E r \in CtxOutcomes("getImage") :
        /\ uerr' = r
        /\ Called("getImage", r)
        /\ IF r # NoErr
           THEN ReturnEarly(r)
           ELSE /\ pc' = "RootFS"
                /\ UNCHANGED <<err, changes>>
    /\ UNCHANGED <<ctxDone, mounts, rnd, parent, cbErr, snapshots, mounted>>
    /\ UNCHANGED notChanges

\* diffIDs, uerr := baseImg.RootFS(ctx); if uerr != nil { return nil, uerr }
RootFS ==
    /\ pc = "RootFS"
    /\ \E r \in CtxOutcomes("RootFS") :
        /\ uerr' = r
        /\ Called("RootFS", r)
        /\ IF r # NoErr
           THEN ReturnEarly(r)
           ELSE /\ pc' = "NewRandom"
                /\ UNCHANGED <<err, changes>>
    /\ UNCHANGED <<ctxDone, mounts, rnd, parent, cbErr, snapshots, mounted>>
    /\ UNCHANGED notChanges

\* rnd, uerr := uuid.NewRandom(); if uerr != nil { return nil, uerr }
NewRandom ==
    /\ pc = "NewRandom"
    /\ \/ \E u \in UUIDs \ snapshots :
            /\ rnd' = u
            /\ uerr' = NoErr
            /\ pc' = "View"
            /\ UNCHANGED <<err, changes>>
       \/ /\ uerr' = NewErr("NewRandom")
          /\ ReturnEarly(NewErr("NewRandom"))
          /\ UNCHANGED rnd
    /\ UNCHANGED <<ctxDone, mounts, parent, cbErr, snapshots, mounted, calls>>
    /\ UNCHANGED notChanges

\* parent, uerr := snapshotter.View(ctx, rnd.String(), chainID); if uerr != nil { return nil, uerr }
\* defer func() {...}()
View ==
    /\ pc = "View"
    /\ \E r \in CtxOutcomes("View") :
        /\ uerr' = r
        /\ Called("View", r)
        /\ IF r # NoErr
           THEN /\ ReturnEarly(r)
                /\ UNCHANGED <<snapshots, parent>>
           ELSE /\ snapshots' = snapshots \cup {rnd}
                /\ parent' = "viewMounts"
                /\ pc' = "MountFs"
                /\ UNCHANGED <<err, changes>>
    /\ UNCHANGED <<ctxDone, mounts, rnd, cbErr, mounted>>
    /\ UNCHANGED notChanges

\* What mount.WithTempMount returns when its callback returned fErr
\* (the mount is released before it returns).
WithTempMountResult(fErr) ==
    IF fErr = NoErr THEN NoErr ELSE Wrapf(<<"mount callback failed">>, fErr)

\* err = mount.WithTempMount(ctx, oci.ReadonlyMounts(mounts), func(fs string) error {...}):
\* the container's mounts are mounted at fs; a nil mount list mounts nothing
MountFs ==
    /\ pc = "MountFs"
    /\ \E r \in (IF mounts = "nil" THEN {NoErr} ELSE Outcomes("mount")) :
        /\ Called("mount fs", r)
        /\ IF r # NoErr
           THEN /\ err' = Wrapf(<<"failed to mount">>, r)
                /\ pc' = "Remove"
                /\ UNCHANGED mounted
           ELSE /\ mounted' = IF mounts = "nil" THEN mounted ELSE mounted \cup {"fs"}
                /\ pc' = "MountRoot"
                /\ UNCHANGED err
    /\ UNCHANGED <<ctxDone, uerr, changes, mounts, rnd, parent, cbErr, snapshots>>
    /\ UNCHANGED notChanges

\* return mount.WithTempMount(ctx, parent, func(root string) error {...}):
\* the view is mounted at root
MountRoot ==
    /\ pc = "MountRoot"
    /\ \E r \in Outcomes("mount") :
        /\ Called("mount root", r)
        /\ IF r # NoErr
           THEN /\ cbErr' = Wrapf(<<"failed to mount">>, r)
                /\ pc' = "UnmountFs"
                /\ UNCHANGED mounted
           ELSE /\ mounted' = mounted \cup {"root"}
                /\ pc' = "ChangesDirs"
                /\ UNCHANGED cbErr
    /\ UNCHANGED <<ctxDone, err, uerr, changes, mounts, rnd, parent, snapshots>>
    /\ UNCHANGED notChanges

\* changes, err = archive.ChangesDirs(fs, root); return err
ChangesDirs ==
    /\ pc = "ChangesDirs"
    /\ \E r \in Outcomes("ChangesDirs") :
        /\ Called("ChangesDirs", r)
        /\ changes' = IF r = NoErr THEN "changeList" ELSE "nil"
        /\ err' = r
        /\ cbErr' = r
    /\ pc' = "UnmountRoot"
    /\ UNCHANGED <<ctxDone, uerr, mounts, rnd, parent, snapshots, mounted>>
    /\ UNCHANGED notChanges

\* Mutant of UnmountRoot: the inner mount is left in place.
UnmountRootSkipped ==
    /\ pc = "UnmountRoot"
    /\ cbErr' = WithTempMountResult(cbErr)
    /\ pc' = "UnmountFs"
    /\ UNCHANGED <<ctxDone, err, uerr, changes, mounts, rnd, parent, snapshots, mounted, calls>>
    /\ UNCHANGED notChanges

\* the inner WithTempMount releases root and returns
UnmountRoot ==
    /\ pc = "UnmountRoot"
    /\ Called("unmount root", NoErr)
    /\ mounted' = mounted \ {"root"}
    /\ cbErr' = WithTempMountResult(cbErr)
    /\ pc' = "UnmountFs"
    /\ UNCHANGED <<ctxDone, err, uerr, changes, mounts, rnd, parent, snapshots>>
    /\ UNCHANGED notChanges

\* the outer WithTempMount releases fs and returns; err = <its result>
UnmountFs ==
    /\ pc = "UnmountFs"
    /\ Called("unmount fs", NoErr)
    /\ mounted' = mounted \ {"fs"}
    /\ err' = WithTempMountResult(cbErr)
    /\ pc' = "Remove"
    /\ UNCHANGED <<ctxDone, uerr, changes, mounts, rnd, parent, cbErr, snapshots>>
    /\ UNCHANGED notChanges

\* Mutant of Remove: a failed removal after a successful diff is not reported.
RemoveErrorIgnored ==
    /\ pc = "Remove"
    /\ \E r \in CtxOutcomes("Remove") :
        /\ uerr' = r
        /\ Called("Remove", r)
        /\ snapshots' = IF r = NoErr THEN snapshots \ {rnd} ELSE snapshots
        /\ IF err = NoErr
           THEN /\ pc' = "returned"
                /\ UNCHANGED err
           ELSE IF r = NoErr
           THEN /\ pc' = "panicked"
                /\ UNCHANGED err
           ELSE /\ err' = Wrapf(ErrorText(r), err)
                /\ pc' = "returned"
    /\ UNCHANGED <<ctxDone, changes, mounts, rnd, parent, cbErr, mounted>>
    /\ UNCHANGED notChanges

\* Mutant of Remove: the view is removed only when the call succeeded so far.
RemoveOnlyOnSuccess ==
    /\ pc = "Remove"
    /\ IF err = NoErr
       THEN \E r \in CtxOutcomes("Remove") :
                /\ uerr' = r
                /\ Called("Remove", r)
                /\ snapshots' = IF r = NoErr THEN snapshots \ {rnd} ELSE snapshots
                /\ err' = r
       ELSE UNCHANGED <<uerr, calls, snapshots, err>>
    /\ pc' = "returned"
    /\ UNCHANGED <<ctxDone, changes, mounts, rnd, parent, cbErr, mounted>>
    /\ UNCHANGED notChanges

\* Mutant of Remove: a failed removal replaces the primary error instead of wrapping it.
RemoveDropsPrimary ==
    /\ pc = "Remove"
    /\ \E r \in CtxOutcomes("Remove") :
        /\ uerr' = r
        /\ Called("Remove", r)
        /\ snapshots' = IF r = NoErr THEN snapshots \ {rnd} ELSE snapshots
        /\ err' = IF r = NoErr THEN err ELSE r
        /\ pc' = "returned"
    /\ UNCHANGED <<ctxDone, changes, mounts, rnd, parent, cbErr, mounted>>
    /\ UNCHANGED notChanges

\* return changes, err   runs the deferred function:
\*   uerr = snapshotter.Remove(ctx, rnd.String())
\*   if err == nil { err = uerr } else { err = fmt.Errorf("%s: %w", uerr.Error(), err) }
\* uerr.Error() on a nil error dereferences nil: the goroutine panics.
\* A Remove that returns an error has not removed the snapshot.
Remove ==
    /\ pc = "Remove"
    /\ \E r \in CtxOutcomes("Remove") :
        /\ uerr' = r
        /\ Called("Remove", r)
        /\ snapshots' = IF r = NoErr THEN snapshots \ {rnd} ELSE snapshots
        /\ IF err = NoErr
           THEN /\ err' = r
                /\ pc' = "returned"
           ELSE IF r = NoErr
           THEN /\ pc' = "panicked"
                /\ UNCHANGED err
           ELSE /\ err' = Wrapf(ErrorText(r), err)
                /\ pc' = "returned"
    /\ UNCHANGED <<ctxDone, changes, mounts, rnd, parent, cbErr, mounted>>
    /\ UNCHANGED notChanges

NextChanges ==
    \/ Cancel
    \/ Mounts
    \/ GetImage
    \/ RootFS
    \/ NewRandom
    \/ View
    \/ MountFs
    \/ MountRoot
    \/ ChangesDirs
    \/ UnmountRoot
    \/ UnmountFs
    \/ Remove

SpecChanges == InitChanges /\ [][NextChanges]_vars

ChangesIdle ==
    /\ pc = "idle"
    /\ ctxDone = FALSE
    /\ err = NoErr
    /\ uerr = NoErr
    /\ changes = "nil"
    /\ mounts = "nil"
    /\ rnd = NoKey
    /\ parent = "nil"
    /\ cbErr = NoErr
    /\ snapshots = {}
    /\ mounted = {}
    /\ calls = <<>>

NextResolve == ResolveImage

InitResolve ==
    /\ ResolveInputs
    /\ blobs = Digests
    /\ ChangesIdle
    /\ ExportIdle
    /\ LoadIdle
    /\ FunctionsIdle

SpecResolve == InitResolve /\ [][NextResolve]_vars


(***************************************************************************)
(* ImageService.ExportImage and optForImageExport (image_exporter.go).     *)
(* Each engine call is one step of a call, so that calls can interleave.   *)
(***************************************************************************)
\* archive.WithImage(is, name): export the record stored under name
WithImage(name) == [kind |-> "image", name |-> name, target |-> <<>>]

\* archive.WithManifest(target, name): export target under name
WithManifest(target, name) == [kind |-> "manifest", name |-> name, target |-> target]

\* targetRef := srcRef + "-tmp-export" + uuid.NewString()
TmpExportName(srcRef, n) == srcRef \o <<"-tmp-export", UUIDStrings[n]>>

IsTmpExportName(name) == \E i \in DOMAIN name : name[i] = "-tmp-export"

NameDangling == <<"moby-dangling", "@sha256:">> \o DigestManifestB

NameBaz == <<DefaultDomain, "baz", ":latest">>

\* the store the exports run on: an index, a manifest, a dangling image and
\* an index with a manifest entry without platform
ExportStore ==
    { Image(NameFoo, DigestIndex, MediaTypeOf(DigestIndex)),
      Image(NameBar, DigestManifestA, MediaTypeOf(DigestManifestA)),
      Image(NameDangling, DigestManifestB, MediaTypeOf(DigestManifestB)),
      Image(NameBaz, DigestIndexBare, MediaTypeOf(DigestIndexBare)) }

\* the blobs of the store when all are present
ExportBlobs == Digests \cup {DigestIndexBare, DigestManifestC}

\* the references an export is asked for: the index, the manifest, the
\* dangling image by short ID, a name that is not stored, the index with a
\* manifest entry without platform
ExportRefs == { <<"foo">>, <<"bar">>, <<"b", "e", "e", "f">>, <<"foo", ":v1">>, <<"baz">> }

\* Longest list of names of an ExportImage call
MaxNames == 2

NameLists == UNION {[1..n -> ExportRefs] : n \in 0..MaxNames}

\* An engine call of call p given ctx: it aborts once ctx is cancelled
ExOutcomes(p, name) ==
    IF exCtxDone[p] THEN {NewErr("context canceled")} ELSE {NoErr, NewErr(name)}

ExCalled(p, name, arg, r) ==
    exCalls' = [exCalls EXCEPT ![p] = Append(@, <<name, arg, r = NoErr>>)]

\* ExportImage(ctx, names, outStream) is called
StartExport(p, names) ==
    /\ exPc = [q \in ExportCalls |-> IF q = p THEN (IF names = <<>> THEN "export" ELSE "plan")
                                     ELSE "idle"]
    /\ exNames = [q \in ExportCalls |-> IF q = p THEN names ELSE <<>>]
    /\ exCtxDone = [q \in ExportCalls |-> FALSE]
    /\ exIdx = [q \in ExportCalls |-> 0]
    /\ exImg = [q \in ExportCalls |-> NoImage]
    /\ exProbe = [q \in ExportCalls |-> 0]
    /\ exPresent = [q \in ExportCalls |-> <<>>]
    /\ exMissing = [q \in ExportCalls |-> <<>>]
    /\ exOpts = [q \in ExportCalls |-> <<>>]
    /\ exDeferred = [q \in ExportCalls |-> <<>>]
    /\ exErr = [q \in ExportCalls |-> NoErr]
    /\ exArchive = [q \in ExportCalls |-> <<>>]
    /\ exCalls = [q \in ExportCalls |-> <<>>]
    /\ uuids = 0

\* the caller cancels ctx while the call is in progress
ExCancel(p) ==
    /\ exPc[p] \notin {"idle", "returned", "panicked"}
    /\ ~exCtxDone[p]
    /\ exCtxDone' = [exCtxDone EXCEPT ![p] = TRUE]
    /\ UNCHANGED <<exPc, exNames, exIdx, exImg, exProbe, exPresent, exMissing, exOpts,
                   exDeferred, exErr, exArchive, exCalls, uuids>>
    /\ UNCHANGED <<chVars, stVars, rsVars, ldVars, fnVars>>

\* ExportImage: if err != nil { return err }
ExFail(p, e) ==
    /\ exErr' = [exErr EXCEPT ![p] = e]
    /\ exPc' = [exPc EXCEPT ![p] = "deferred"]

\* ExportImage: if newOpt != nil { opts = append(opts, newOpt) }, and the
\* next turn of the loop, or client.Export after the last
ExAppend(p, opt) ==
    /\ exOpts' = [exOpts EXCEPT ![p] = Append(@, opt)]
    /\ exIdx' = [exIdx EXCEPT ![p] = @ + 1]
    /\ exPc' = [exPc EXCEPT ![p] = IF exIdx[p] + 1 = Len(exNames[p]) THEN "export" ELSE "plan"]
    /\ UNCHANGED exErr

\* optForImageExport: img, err := i.resolveImage(ctx, name, nil);
\* ref, err := reference.ParseNamed(img.Name); the choice by img.Target.MediaType
ExResolve(p) ==
    /\ exPc[p] = "plan"
    /\ \E order \in Orders(Listed(images, exNames[p][exIdx[p] + 1])) :
       \E fault \in (IF exCtxDone[p] THEN {"context canceled"} ELSE {"none", "List", "Get"}) :
          LET r == resolveImage(order, exNames[p][exIdx[p] + 1], NoPlatform, fault)
          IN  IF r.err # NoErr
              THEN /\ ExFail(p, Wrapf(<<"failed to resolve image">>, r.err))
                   /\ UNCHANGED <<exOpts, exIdx, exImg>>
              ELSE IF ~ParseNamed(r.img.Name).ok
              THEN /\ ExFail(p, Wrapf(<<"failed to parse image reference">>,
                                      NewErr("invalid reference format")))
                   /\ UNCHANGED <<exOpts, exIdx, exImg>>
              ELSE IF IsIndexType(r.img.Target.MediaType)
              THEN /\ exImg' = [exImg EXCEPT ![p] = r.img]
                   /\ exPc' = [exPc EXCEPT ![p] = "children"]
                   /\ UNCHANGED <<exOpts, exIdx, exErr>>
              ELSE /\ ExAppend(p, WithImage(r.img.Name))
                   /\ UNCHANGED exImg
    /\ UNCHANGED <<exCtxDone, exNames, exProbe, exPresent, exMissing, exDeferred, exArchive,
                   exCalls, uuids>>
    /\ UNCHANGED <<chVars, stVars, rsVars, ldVars, fnVars>>

\* optForImageExport: children, err := containerdimages.Children(ctx, store, img.Target)
ExChildren(p) ==
    /\ exPc[p] = "children"
    /\ \E r \in ExOutcomes(p, "Children") :
        IF r # NoErr
        THEN /\ ExFail(p, r)
             /\ UNCHANGED <<exProbe, exPresent, exMissing>>
        ELSE /\ exProbe' = [exProbe EXCEPT ![p] = 1]
             /\ exPresent' = [exPresent EXCEPT ![p] = <<>>]
             /\ exMissing' = [exMissing EXCEPT ![p] = <<>>]
             /\ exPc' = [exPc EXCEPT ![p] = "probe"]
             /\ UNCHANGED exErr
    /\ UNCHANGED <<exCtxDone, exNames, exIdx, exImg, exOpts, exDeferred, exArchive, exCalls, uuids>>
    /\ UNCHANGED <<chVars, stVars, rsVars, ldVars, fnVars>>

\* Mutant of AllManifestsPresent: an index is always converted.
AllManifestsPresentNever(missingPlatforms) == Len(missingPlatforms) < 0

\* optForImageExport: if len(missingPlatforms) == 0 the original index is
\* exported by name, otherwise a trimmed image is converted
AllManifestsPresent(missingPlatforms) == Len(missingPlatforms) = 0

\* optForImageExport, one turn of the loop over children:
\* _, err := store.ReaderAt(ctx, child), and after the last child the choice
\* between archive.WithImage(is, img.Name) and converter.Convert.
\* *child.Platform of a child without platform is a nil dereference: the
\* call panics, and its deferred calls run before the panic leaves it.
ExProbe(p) ==
    /\ exPc[p] = "probe"
    /\ LET children == Children(exImg[p].Target.Digest)
           child == children[exProbe[p]]
           probed == IsManifestType(child.MediaType)
           outcomes ==
               IF ~probed THEN {NoErr}
               ELSE IF exCtxDone[p] THEN {NewErr("context canceled")}
               ELSE {IF child.Digest \in blobs THEN NoErr ELSE NotFound(<<"blob">>),
                     NewErr("ReaderAt")}
       IN  \E r \in outcomes :
            IF r # NoErr /\ ~IsNotFound(r)
            THEN /\ ExFail(p, r)
                 /\ UNCHANGED <<exProbe, exPresent, exMissing, exOpts, exIdx>>
            ELSE IF probed /\ child.Platform = NoPlatform
            THEN /\ exPc' = [exPc EXCEPT ![p] = "unwinding"]
                 /\ UNCHANGED <<exProbe, exPresent, exMissing, exOpts, exIdx, exErr>>
            ELSE LET present == IF probed /\ r = NoErr THEN Append(exPresent[p], child.Platform)
                                ELSE exPresent[p]
                     missing == IF probed /\ r # NoErr THEN Append(exMissing[p], child.Platform)
                                ELSE exMissing[p]
                 IN  /\ exPresent' = [exPresent EXCEPT ![p] = present]
                     /\ exMissing' = [exMissing EXCEPT ![p] = missing]
                     /\ IF exProbe[p] < Len(children)
                        THEN /\ exProbe' = [exProbe EXCEPT ![p] = @ + 1]
                             /\ UNCHANGED <<exPc, exOpts, exIdx, exErr>>
                        ELSE IF AllManifestsPresent(missing)
                        THEN /\ ExAppend(p, WithImage(exImg[p].Name))
                             /\ UNCHANGED exProbe
                        ELSE /\ exPc' = [exPc EXCEPT ![p] = "convert"]
                             /\ UNCHANGED <<exProbe, exOpts, exIdx, exErr>>
    /\ UNCHANGED <<exCtxDone, exNames, exImg, exDeferred, exArchive, exCalls, uuids>>
    /\ UNCHANGED <<chVars, stVars, rsVars, ldVars, fnVars>>

\* Mutant of ConvertedIndex: the conversion keeps every manifest.
ConvertedIndexKeepsAll(d, presentPlatforms) == d

\* converter.WithPlatform(platforms.Any(presentPlatforms...)) on the index:
\* the digest of the index that keeps the manifests of those platforms
\* (the index itself when it keeps them all)
ConvertedIndex(d, presentPlatforms) ==
    LET kept == SelectSeq(Children(d), LAMBDA c : c.Platform \in SeqToSet(presentPlatforms))
    IN  IF kept = Children(d) THEN d
        ELSE CHOOSE x \in DerivedDigests : Children(x) = kept

\* optForImageExport: newImg, err := converter.Convert(ctx, i.client, targetRef, srcRef, ...)
\* and, back in ExportImage, if tmpImage != nil { defer ...Delete(ctx, tmpImage.Name, ...) }.
\* Convert fails before it creates the image (it returns nil), or its
\* Create fails (it returns an empty image), or it creates the image.
ExConvert(p) ==
    /\ exPc[p] = "convert"
    /\ LET srcRef == RefString(ParseNamed(exImg[p].Name))
           targetRef == TmpExportName(srcRef, uuids + 1)
           target == ConvertedIndex(exImg[p].Target.Digest, exPresent[p])
           newImg == Image(targetRef, target, MediaTypeOf(target))
       IN  /\ uuids' = uuids + 1
           /\ \E outcome \in (IF exCtxDone[p] THEN {"failed", "create failed"}
                              ELSE {"failed", "create failed", "created"}) :
                /\ ExCalled(p, "Convert", targetRef,
                            IF outcome = "created" THEN NoErr ELSE NewErr("Convert"))
                /\ CASE outcome = "failed" ->
                          /\ ExFail(p, NewErr("Convert"))
                          /\ UNCHANGED <<exDeferred, exOpts, exIdx, images, blobs>>
                     [] outcome = "create failed" ->
                          /\ exDeferred' = [exDeferred EXCEPT ![p] = Append(@, NoImage.Name)]
                          /\ ExFail(p, NewErr("Convert"))
                          /\ UNCHANGED <<exOpts, exIdx, images, blobs>>
                     [] outcome = "created" ->
                          /\ images' = {img \in images : img.Name # targetRef} \cup {newImg}
                          /\ blobs' = blobs \cup {target}
                          /\ exDeferred' = [exDeferred EXCEPT ![p] = Append(@, newImg.Name)]
                          /\ ExAppend(p, WithManifest(newImg.Target.Digest, srcRef))
    /\ UNCHANGED <<exCtxDone, exNames, exImg, exProbe, exPresent, exMissing, exArchive>>
    /\ UNCHANGED <<chVars, rsVars, ldVars, fnVars>>

\* what client.Export writes for the options: one entry per option, the
\* target of a WithImage option read from the store at that moment
ArchiveEntries(opts) ==
    [i \in DOMAIN opts |->
        IF opts[i].kind = "manifest"
        THEN [name |-> opts[i].name, target |-> opts[i].target]
        ELSE LET found == {img \in images : img.Name = opts[i].name}
             IN  IF found = {} THEN [name |-> opts[i].name, target |-> <<>>]
                 ELSE [name |-> opts[i].name, target |-> (CHOOSE img \in found : TRUE).Target.Digest]]

\* return i.client.Export(ctx, outStream, opts...)
ExExport(p) ==
    /\ exPc[p] = "export"
    /\ LET entries == ArchiveEntries(exOpts[p])
           stored == \A i \in DOMAIN entries : entries[i].target # <<>>
       IN  \E r \in (IF stored THEN ExOutcomes(p, "Export") ELSE {NotFound(<<"image">>)}) :
            /\ ExCalled(p, "Export", <<>>, r)
            /\ exErr' = [exErr EXCEPT ![p] = r]
            /\ exArchive' = [exArchive EXCEPT ![p] = IF r = NoErr THEN entries ELSE <<>>]
    /\ exPc' = [exPc EXCEPT ![p] = "deferred"]
    /\ UNCHANGED <<exCtxDone, exNames, exIdx, exImg, exProbe, exPresent, exMissing, exOpts,
                   exDeferred, uuids>>
    /\ UNCHANGED <<chVars, stVars, rsVars, ldVars, fnVars>>

\* Mutant of ExDelete: the cleanup removes every temporary export image in
\* the store, not only the one the call registered.
ExDeleteEveryTmpExport(p) ==
    /\ exPc[p] \in {"deferred", "unwinding"}
    /\ exDeferred[p] # <<>>
    /\ LET name == exDeferred[p][Len(exDeferred[p])]
           stored == \E img \in images : img.Name = name
       IN  \E r \in (IF stored THEN ExOutcomes(p, "Delete") ELSE {NotFound(<<"image">>)}) :
            /\ ExCalled(p, "Delete", name, r)
            /\ images' = IF r = NoErr THEN {img \in images : ~IsTmpExportName(img.Name)}
                         ELSE images
    /\ exDeferred' = [exDeferred EXCEPT ![p] = SubSeq(@, 1, Len(@) - 1)]
    /\ UNCHANGED <<exPc, exCtxDone, exNames, exIdx, exImg, exProbe, exPresent, exMissing, exOpts,
                   exErr, exArchive, uuids, blobs>>
    /\ UNCHANGED <<chVars, rsVars, ldVars, fnVars>>

\* Mutant of ExDelete: the deferred calls run first registered first.
ExDeleteFirstRegistered(p) ==
    /\ exPc[p] \in {"deferred", "unwinding"}
    /\ exDeferred[p] # <<>>
    /\ LET name == exDeferred[p][1]
           stored == \E img \in images : img.Name = name
       IN  \E r \in (IF stored THEN ExOutcomes(p, "Delete") ELSE {NotFound(<<"image">>)}) :
            /\ ExCalled(p, "Delete", name, r)
            /\ images' = IF r = NoErr THEN {img \in images : img.Name # name} ELSE images
    /\ exDeferred' = [exDeferred EXCEPT ![p] = Tail(@)]
    /\ UNCHANGED <<exPc, exCtxDone, exNames, exIdx, exImg, exProbe, exPresent, exMissing, exOpts,
                   exErr, exArchive, uuids, blobs>>
    /\ UNCHANGED <<chVars, rsVars, ldVars, fnVars>>

\* a deferred i.client.ImageService().Delete(ctx, tmpImage.Name, SynchronousDelete()),
\* last registered first; its error is dropped
ExDelete(p) ==
    /\ exPc[p] \in {"deferred", "unwinding"}
    /\ exDeferred[p] # <<>>
    /\ LET name == exDeferred[p][Len(exDeferred[p])]
           stored == \E img \in images : img.Name = name
       IN  \E r \in (IF stored THEN ExOutcomes(p, "Delete") ELSE {NotFound(<<"image">>)}) :
            /\ ExCalled(p, "Delete", name, r)
            /\ images' = IF r = NoErr THEN {img \in images : img.Name # name} ELSE images
    /\ exDeferred' = [exDeferred EXCEPT ![p] = SubSeq(@, 1, Len(@) - 1)]
    /\ UNCHANGED <<exPc, exCtxDone, exNames, exIdx, exImg, exProbe, exPresent, exMissing, exOpts,
                   exErr, exArchive, uuids, blobs>>
    /\ UNCHANGED <<chVars, rsVars, ldVars, fnVars>>

\* ExportImage returns to its caller once the deferred calls have run
ExReturn(p) ==
    /\ exPc[p] = "deferred"
    /\ exDeferred[p] = <<>>
    /\ exPc' = [exPc EXCEPT ![p] = "returned"]
    /\ UNCHANGED <<exCtxDone, exNames, exIdx, exImg, exProbe, exPresent, exMissing, exOpts,
                   exDeferred, exErr, exArchive, exCalls, uuids>>
    /\ UNCHANGED <<chVars, stVars, rsVars, ldVars, fnVars>>

\* the panic leaves ExportImage once the deferred calls have run
ExPanic(p) ==
    /\ exPc[p] = "unwinding"
    /\ exDeferred[p] = <<>>
    /\ exPc' = [exPc EXCEPT ![p] = "panicked"]
    /\ UNCHANGED <<exCtxDone, exNames, exIdx, exImg, exProbe, exPresent, exMissing, exOpts,
                   exDeferred, exErr, exArchive, exCalls, uuids>>
    /\ UNCHANGED <<chVars, stVars, rsVars, ldVars, fnVars>>

\* one ExportImage call on the store, with some of the manifests' blobs missing
InitExport ==
    /\ images = ExportStore
    /\ \E missing \in SUBSET {DigestManifestA, DigestManifestB, DigestManifestC} :
            blobs = ExportBlobs \ missing
    /\ \E names \in NameLists : StartExport("export1", names)
    /\ ChangesIdle
    /\ ResolveIdle
    /\ LoadIdle
    /\ FunctionsIdle

NextExport ==
    \E p \in ExportCalls :
        \/ ExCancel(p)
        \/ ExResolve(p)
        \/ ExChildren(p)
        \/ ExProbe(p)
        \/ ExConvert(p)
        \/ ExExport(p)
        \/ ExDelete(p)
        \/ ExReturn(p)
        \/ ExPanic(p)

SpecExport == InitExport /\ [][NextExport]_vars

\* the short ID of the index a temporary image of foo points to when the
\* blob of manifest B is missing
ShortIDDerivedA == <<"c", "0", "0", "a">>

\* the name lists of two ExportImage calls that run at once: the partially
\* present index, that index and then the index whose manifest entry has no
\* platform, and the short ID a temporary image answers to
ConcurrentNameLists == { << <<"foo">> >>, << <<"foo">>, <<"baz">> >>, << ShortIDDerivedA >> }

\* two ExportImage calls on one daemon: the image store and the content
\* store are shared, everything else is local to a call
InitExportConcurrent ==
    /\ images = ExportStore
    /\ blobs = ExportBlobs \ {DigestManifestB}
    /\ exNames \in [ExportCalls -> ConcurrentNameLists]
    /\ exPc = [q \in ExportCalls |-> "plan"]
    /\ exCtxDone = [q \in ExportCalls |-> FALSE]
    /\ exIdx = [q \in ExportCalls |-> 0]
    /\ exImg = [q \in ExportCalls |-> NoImage]
    /\ exProbe = [q \in ExportCalls |-> 0]
    /\ exPresent = [q \in ExportCalls |-> <<>>]
    /\ exMissing = [q \in ExportCalls |-> <<>>]
    /\ exOpts = [q \in ExportCalls |-> <<>>]
    /\ exDeferred = [q \in ExportCalls |-> <<>>]
    /\ exErr = [q \in ExportCalls |-> NoErr]
    /\ exArchive = [q \in ExportCalls |-> <<>>]
    /\ exCalls = [q \in ExportCalls |-> <<>>]
    /\ uuids = 0
    /\ ChangesIdle
    /\ ResolveIdle
    /\ LoadIdle
    /\ FunctionsIdle

SpecExportConcurrent == InitExportConcurrent /\ [][NextExport]_vars



(***************************************************************************)
(* ImageService.LoadImage (image_exporter.go).                             *)
(***************************************************************************)
\* the images an archive can hold
ArchiveImages ==
    { Image(NameFoo, DigestIndex, MediaTypeOf(DigestIndex)),
      Image(NameBar, DigestManifestA, MediaTypeOf(DigestManifestA)),
      Image(NameDead, DigestManifestB, MediaTypeOf(DigestManifestB)) }

\* the archives: some of the images, in some order
Archives == UNION {Orders(S) : S \in SUBSET ArchiveImages}

LdCalled(name, img, outcome) == ldCalls' = Append(ldCalls, <<name, img.Name, outcome>>)

\* the next turn of the loop over imgs, or return nil after the last
LdNext ==
    /\ ldIdx' = ldIdx + 1
    /\ ldPc' = IF ldIdx + 1 = Len(ldImgs) THEN "returned" ELSE "IsUnpacked"

\* imgs, err := i.client.Import(ctx, inTar, ...); on an error
\* return errors.Wrap(err, "failed to import image")
LdImport ==
    /\ ldPc = "Import"
    /\ \E r \in {NoErr, NewErr("Import")} :
        /\ LdCalled("Import", NoImage, IF r = NoErr THEN "ok" ELSE "error")
        /\ IF r # NoErr
           THEN /\ ldErr' = Wrapf(<<"failed to import image">>, r)
                /\ ldPc' = "returned"
                /\ UNCHANGED <<ldImgs, images, blobs>>
           ELSE /\ ldImgs' = ldArchive
                /\ images' = {img \in images : \A i \in DOMAIN ldArchive : img.Name # ldArchive[i].Name}
                                \cup SeqToSet(ldArchive)
                /\ blobs' = blobs \cup {ldArchive[i].Target.Digest : i \in DOMAIN ldArchive}
                /\ ldPc' = IF ldArchive = <<>> THEN "returned" ELSE "IsUnpacked"
                /\ UNCHANGED ldErr
    /\ UNCHANGED <<ldArchive, ldIdx, unpacked>>
    /\ UNCHANGED <<chVars, rsVars, exVars, fnVars>>

\* Mutant of LdIsUnpacked: a failed check ends the import with an error.
LdIsUnpackedFatal ==
    /\ ldPc = "IsUnpacked"
    /\ LET img == ldImgs[ldIdx + 1]
       IN  \E r \in {NoErr, NewErr("IsUnpacked")} :
            IF r # NoErr
            THEN /\ LdCalled("IsUnpacked", img, "error")
                 /\ ldErr' = Wrapf(<<"failed to check if image is unpacked">>, r)
                 /\ ldPc' = "returned"
                 /\ UNCHANGED ldIdx
            ELSE IF img.Target.Digest \in unpacked
            THEN /\ LdCalled("IsUnpacked", img, "unpacked")
                 /\ LdNext
                 /\ UNCHANGED ldErr
            ELSE /\ LdCalled("IsUnpacked", img, "not unpacked")
                 /\ ldPc' = "Unpack"
                 /\ UNCHANGED <<ldIdx, ldErr>>
    /\ UNCHANGED <<ldArchive, ldImgs, unpacked>>
    /\ UNCHANGED <<chVars, stVars, rsVars, exVars, fnVars>>

\* unpacked, err := platformImg.IsUnpacked(ctx, i.snapshotter); an error is
\* logged and the loop continues with the next image
LdIsUnpacked ==
    /\ ldPc = "IsUnpacked"
    /\ LET img == ldImgs[ldIdx + 1]
       IN  \E r \in {NoErr, NewErr("IsUnpacked")} :
            IF r # NoErr
            THEN /\ LdCalled("IsUnpacked", img, "error")
                 /\ LdNext
            ELSE IF img.Target.Digest \in unpacked
            THEN /\ LdCalled("IsUnpacked", img, "unpacked")
                 /\ LdNext
            ELSE /\ LdCalled("IsUnpacked", img, "not unpacked")
                 /\ ldPc' = "Unpack"
                 /\ UNCHANGED ldIdx
    /\ UNCHANGED <<ldArchive, ldImgs, ldErr, unpacked>>
    /\ UNCHANGED <<chVars, stVars, rsVars, exVars, fnVars>>

\* Mutant of LdUnpack: a failed unpack is logged and the loop continues.
LdUnpackSwallows ==
    /\ ldPc = "Unpack"
    /\ LET img == ldImgs[ldIdx + 1]
       IN  \E r \in {NoErr, NewErr("Unpack")} :
            /\ LdCalled("Unpack", img, IF r = NoErr THEN "ok" ELSE "error")
            /\ unpacked' = IF r = NoErr THEN unpacked \cup {img.Target.Digest} ELSE unpacked
            /\ LdNext
            /\ UNCHANGED ldErr
    /\ UNCHANGED <<ldArchive, ldImgs>>
    /\ UNCHANGED <<chVars, stVars, rsVars, exVars, fnVars>>

\* Mutant of LdUnpack: a failed unpack is remembered for the return and the
\* loop continues with the later images.
LdUnpackKeepsGoing ==
    /\ ldPc = "Unpack"
    /\ LET img == ldImgs[ldIdx + 1]
       IN  \E r \in {NoErr, NewErr("Unpack")} :
            /\ LdCalled("Unpack", img, IF r = NoErr THEN "ok" ELSE "error")
            /\ unpacked' = IF r = NoErr THEN unpacked \cup {img.Target.Digest} ELSE unpacked
            /\ ldErr' = IF r = NoErr THEN ldErr ELSE Wrapf(<<"failed to unpack image">>, r)
            /\ LdNext
    /\ UNCHANGED <<ldArchive, ldImgs>>
    /\ UNCHANGED <<chVars, stVars, rsVars, exVars, fnVars>>

\* if !unpacked { err := platformImg.Unpack(ctx, i.snapshotter) }; on an
\* error return errors.Wrap(err, "failed to unpack image")
LdUnpack ==
    /\ ldPc = "Unpack"
    /\ LET img == ldImgs[ldIdx + 1]
       IN  \E r \in {NoErr, NewErr("Unpack")} :
            /\ LdCalled("Unpack", img, IF r = NoErr THEN "ok" ELSE "error")
            /\ IF r # NoErr
               THEN /\ ldErr' = Wrapf(<<"failed to unpack image">>, r)
                    /\ ldPc' = "returned"
                    /\ UNCHANGED <<ldIdx, unpacked>>
               ELSE /\ unpacked' = unpacked \cup {img.Target.Digest}
                    /\ LdNext
                    /\ UNCHANGED ldErr
    /\ UNCHANGED <<ldArchive, ldImgs>>
    /\ UNCHANGED <<chVars, stVars, rsVars, exVars, fnVars>>

\* LoadImage is called on an archive, some of whose images the snapshotter
\* holds unpacked already
InitLoad ==
    /\ ldPc = "Import"
    /\ ldArchive \in Archives
    /\ ldImgs = <<>>
    /\ ldIdx = 0
    /\ ldErr = NoErr
    /\ ldCalls = <<>>
    /\ unpacked \in SUBSET {DigestIndex, DigestManifestA, DigestManifestB}
    /\ StoreIdle
    /\ ChangesIdle
    /\ ResolveIdle
    /\ ExportIdle
    /\ FunctionsIdle

NextLoad == LdImport \/ LdIsUnpacked \/ LdUnpack

SpecLoad == InitLoad /\ [][NextLoad]_vars


(***************************************************************************)
(* isRootfsChildOf: the RootFS-child relation on lists of diff IDs.          *)
(***************************************************************************)
\* Mutant of isRootfsChildOf: a list is a child of itself.
isRootfsChildOfOrSelf(childFS, parentFS) ==
    /\ Len(childFS) >= Len(parentFS)
    /\ \A i \in 1..Len(parentFS) : childFS[i] = parentFS[i]

\* the loop of isRootfsChildOf over the parent's diff IDs, from index i on
RECURSIVE diffIDsMatchFrom(_, _, _)
diffIDsMatchFrom(childFS, parentFS, i) ==
    IF i > Len(parentFS) THEN TRUE
    ELSE IF childFS[i] # parentFS[i] THEN FALSE
    ELSE diffIDsMatchFrom(childFS, parentFS, i + 1)

\* isRootfsChildOf(childFS, parentFS): false unless child is longer, then one
\* pass over the parent's diff IDs
isRootfsChildOf(childFS, parentFS) ==
    IF Len(childFS) <= Len(parentFS) THEN FALSE
    ELSE diffIDsMatchFrom(childFS, parentFS, 1)

\* toRootfs: one letter is one distinct diff ID
toRootfs(letters) == letters

\* Longest list of diff IDs drawn over two layers
MaxLayers == 3

\* the lists of TestIsRootfsChildOf, and every list over two layers
RootfsInputs ==
    { toRootfs(<<"A", "B">>), toRootfs(<<"A", "B", "C">>), toRootfs(<<"A", "B", "D">>),
      toRootfs(<<"X", "Y", "Z">>), toRootfs(<<"X", "Y", "Z", "A", "B">>) }
    \cup UNION {[1..n -> {"A", "B"}] : n \in 0..MaxLayers}

\* out := isRootfsChildOf(tc.child, tc.parent)
IsRootfsChildOf ==
    /\ rfResult = <<>>
    /\ rfResult' = <<isRootfsChildOf(rfChild, rfParent)>>
    /\ UNCHANGED <<rfChild, rfParent, hdDesc, hdFault, hdResult>>
    /\ UNCHANGED <<chVars, stVars, rsVars, exVars, ldVars>>

InitRootfs ==
    /\ rfChild \in RootfsInputs
    /\ rfParent \in RootfsInputs
    /\ rfResult = <<>>
    /\ hdDesc = Descriptor(<<>>, NoPlatform)
    /\ hdFault = "none"
    /\ hdResult = <<>>
    /\ StoreIdle
    /\ ChangesIdle
    /\ ResolveIdle
    /\ ExportIdle
    /\ LoadIdle

NextRootfs == IsRootfsChildOf

SpecRootfs == InitRootfs /\ [][NextRootfs]_vars

(***************************************************************************)
(* ImageService.presentChildrenHandler (image.go).                         *)
(***************************************************************************)
\* what a handler returns: subdescs, err
Handled(subdescs, e) == [subdescs |-> subdescs, err |-> e]

\* _, err = store.ReaderAt(ctx, desc)
ReaderAt(store, desc, fault) ==
    IF fault = "ReaderAt" THEN NewErr("ReaderAt")
    ELSE IF desc.Digest \notin store THEN NotFound(<<"content">>)
    ELSE NoErr

\* containerdimages.Children(ctx, store, desc), which may fail
ChildrenOf(desc, fault) ==
    IF fault = "Children" THEN Handled(<<>>, NewErr("Children"))
    ELSE Handled(Children(desc.Digest), NoErr)

\* Mutant of presentChildrenHandler: a missing blob is an error.
presentChildrenHandlerStrict(store, desc, fault) ==
    LET e == ReaderAt(store, desc, fault)
    IN  IF e # NoErr THEN Handled(<<>>, e)
        ELSE ChildrenOf(desc, fault)

\* the handler presentChildrenHandler returns, applied to desc
presentChildrenHandler(store, desc, fault) ==
    LET e == ReaderAt(store, desc, fault)
    IN  IF e # NoErr
        THEN IF IsNotFound(e) THEN Handled(<<>>, NoErr)
             ELSE Handled(<<>>, e)
        ELSE ChildrenOf(desc, fault)

\* the descriptors the handler is applied to
HandlerDescs ==
    {Descriptor(d, NoPlatform) : d \in IndexDigests}
    \cup {Descriptor(DigestManifestA, LinuxAmd64), Descriptor(DigestManifestB, LinuxArmV6)}

HandlerFaults == {"none", "ReaderAt", "Children"}

\* subdescs, err := handler(ctx, desc)
PresentChildren ==
    /\ hdResult = <<>>
    /\ hdResult' = <<presentChildrenHandler(blobs, hdDesc, hdFault)>>
    /\ UNCHANGED <<hdDesc, hdFault, rfChild, rfParent, rfResult>>
    /\ UNCHANGED <<chVars, stVars, rsVars, exVars, ldVars>>

InitHandler ==
    /\ hdDesc \in HandlerDescs
    /\ hdFault \in HandlerFaults
    /\ hdResult = <<>>
    /\ images = {}
    /\ blobs \in SUBSET (Digests \cup IndexDigests)
    /\ rfChild = <<>>
    /\ rfParent = <<>>
    /\ rfResult = <<>>
    /\ ChangesIdle
    /\ ResolveIdle
    /\ ExportIdle
    /\ LoadIdle

NextHandler == PresentChildren

SpecHandler == InitHandler /\ [][NextHandler]_vars

(***************************************************************************)
(* Claims about ImageService.ExportImage.                                  *)
(***************************************************************************)
ExReturned(p) == exPc[p] = "returned"

\* the calls of one kind in the log of call p
ExCallsOf(p, name) == SelectSeq(exCalls[p], LAMBDA c : c[1] = name)

\* the temporary images converter.Convert created for call p
CreatedTmpNames(p) ==
    {exCalls[p][i][2] : i \in {j \in DOMAIN exCalls[p] :
                                  exCalls[p][j][1] = "Convert" /\ exCalls[p][j][3]}}

Stored(name) == \E img \in images : img.Name = name

\* C5: when an ExportImage call that created a temporary image returns,
\* with success or with an error, no image named after that temporary
\* image is left in the image store.
C5_TmpImageGoneOnReturn ==
    \A p \in ExportCalls :
        ExReturned(p) => \A name \in CreatedTmpNames(p) : ~Stored(name)

\* the requested reference resolves, whatever order the store lists its
\* records in, to a target that is not an index, or to an index whose
\* manifest children all have their blob in the content store
ResolvesComplete(refOrID) ==
    \A order \in Orders(Listed(images, refOrID)) :
        LET r == resolveImage(order, refOrID, NoPlatform, "none")
            children == Children(r.img.Target.Digest)
        IN  /\ r.err = NoErr
            /\ IsIndexType(r.img.Target.MediaType) =>
                   \A i \in DOMAIN children :
                       IsManifestType(children[i].MediaType) => children[i].Digest \in blobs

\* the name of the record the requested reference resolves to
ResolvedName(refOrID) ==
    resolveImage(CHOOSE order \in Orders(Listed(images, refOrID)) : TRUE,
                 refOrID, NoPlatform, "none").img.Name

AllComplete(p) == \A i \in DOMAIN exNames[p] : ResolvesComplete(exNames[p][i])

Exited == pc \in {"returned", "panicked"}

Failed(name) == \E i \in 1..Len(calls) : calls[i] = <<name, FALSE>>

Succeeded(name) == \E i \in 1..Len(calls) : calls[i] = <<name, TRUE>>

NumCalls(name) == Cardinality({i \in 1..Len(calls) : calls[i][1] = name})

ViewCreated == parent # "nil"

\* The main computation failed: the directory diff or one of the two temporary mounts.
PrimaryFailed == Failed("ChangesDirs") \/ Failed("mount fs") \/ Failed("mount root")

PrimaryCause == IF Failed("ChangesDirs") THEN NewErr("ChangesDirs") ELSE NewErr("mount")

\* C1 as claimed: once Changes has exited after creating the view, the view
\* is no longer in the snapshotter, on every exit path (also when Remove fails).
C1_ViewGoneOnEveryExit ==
    (Exited /\ ViewCreated) => rnd \notin snapshots

\* C1 amended: once Changes has exited after creating the view, Remove has
\* been called exactly once, as the last engine call, and the view is gone
\* exactly when that Remove succeeded.
C1_ViewRemovalAttemptedOnEveryExit ==
    (Exited /\ ViewCreated) =>
        /\ NumCalls("Remove") = 1
        /\ calls[Len(calls)][1] = "Remove"
        /\ (rnd \notin snapshots) <=> Succeeded("Remove")

C1_Witness ==
    /\ Exited
    /\ ViewCreated
    /\ Failed("ChangesDirs")
    /\ Failed("Remove")
    /\ rnd \in snapshots

\* C2: if the directory diff or a temporary mount failed and the view removal
\* succeeded, Changes returns normally (no crash) with an error that wraps
\* the failure, both mounts released and the view removed.
C2_DiffErrorReturnedAfterCleanup ==
    (Exited /\ PrimaryFailed /\ Succeeded("Remove")) =>
        /\ pc = "returned"
        /\ ErrorsIs(err, PrimaryCause)
        /\ mounted = {}
        /\ rnd \notin snapshots

\* C3: when the main computation and the view removal both fail, the step in
\* which Changes returns sets err to the removal error's text wrapped around
\* the primary error, whose Unwrap is the primary error unchanged.
C3_TeardownWrapsPrimary ==
    [][(pc = "Remove" /\ pc' # pc /\ err # NoErr /\ uerr' # NoErr) =>
         /\ pc' = "returned"
         /\ Head(err') = ErrorText(uerr')
         /\ Unwrap(err') = err
         /\ ErrorsIs(err', err)]_vars

C3_Witness ==
    /\ pc = "returned"
    /\ Failed("ChangesDirs")
    /\ Failed("Remove")
    /\ ErrorsIs(err, NewErr("ChangesDirs"))
    /\ Head(err) = ErrorText(uerr)

\* C4: a failure of snapshotter.Mounts is fatal: Changes has returned that
\* error at once, with no further engine call, no view and no mount.
C4_MountsErrorFatal ==
    Failed("Mounts") =>
        /\ pc = "returned"
        /\ err = uerr
        /\ err # NoErr
        /\ Len(calls) = 1
        /\ ~ViewCreated
        /\ mounted = {}

\* C7: when ctx was cancelled during the call, the temporary mounts and the
\* snapshot view the call acquired are released by the time it has exited.
C7_CancelStillReleases ==
    (Exited /\ ctxDone) =>
        /\ mounted = {}
        /\ ViewCreated => rnd \notin snapshots

(***************************************************************************)
(* Claims about resolveImage, checked under SpecResolve.                   *)
(***************************************************************************)
\* the named form of a short identifier s: s:latest under the default namespace
ShortFormName(s) == <<DefaultDomain>> \o s \o <<":latest">>

IsPrefixOf(s, d) == Len(s) <= Len(d) /\ \A i \in DOMAIN s : d[i] = s[i]

\* the stored records a short identifier s matches: by name or by digest prefix
ShortIDMatches(s) ==
    {img \in images : img.Name = ShortFormName(s) \/ IsPrefixOf(s, img.Target.Digest)}

IsShortHex(s) == IsHexString(s) /\ Len(s) \in ShortIDMin..ShortIDMax

\* C8: when the engine's List succeeds and a stored record is named with the
\* named form of the short identifier, every resolveImage call returns that
\* record, whatever else matches by digest prefix and in whatever order.
C8_ExactNameWins ==
    \A i \in DOMAIN results : \A img \in images :
        (IsShortHex(argRefOrID) /\ argFault \notin {"List", "context canceled"} /\ img.Name = ShortFormName(argRefOrID))
            => results[i] = Resolved(img, NoErr)

C8_Witness ==
    /\ IsShortHex(argRefOrID)
    /\ argFault = "none"
    /\ Len(results) > 0
    /\ \E img \in images :
        /\ img.Name = ShortFormName(argRefOrID)
        /\ results[1] = Resolved(img, NoErr)
        /\ \E a, b \in ShortIDMatches(argRefOrID) \ {img} :
              a.Target.Digest # b.Target.Digest

\* C9: for a short identifier that no stored record is named after, with the
\* engine's List succeeding: two or more matches of one digest resolve to one
\* of them, matches of two or more digests give NotFound "ambiguous
\* reference", and no match gives NotFound.
C9_DistinctDigestsDecide ==
    \A i \in DOMAIN results :
        LET m == ShortIDMatches(argRefOrID)
            digests == {img.Target.Digest : img \in m}
        IN  (/\ IsShortHex(argRefOrID)
             /\ argFault \notin {"List", "context canceled"}
             /\ \A img \in m : img.Name # ShortFormName(argRefOrID))
            => /\ (Cardinality(m) >= 2 /\ Cardinality(digests) = 1)
                    => (results[i].err = NoErr /\ results[i].img \in m)
               /\ Cardinality(digests) >= 2
                    => results[i] = Resolved(NoImage, NotFound(<<"ambiguous reference">>))
               /\ m = {} => (results[i].img = NoImage /\ IsNotFound(results[i].err))

C9_Witness ==
    /\ IsShortHex(argRefOrID)
    /\ argFault = "none"
    /\ Len(results) = 2
    /\ \A img \in images : img.Name # ShortFormName(argRefOrID)
    /\ Cardinality(ShortIDMatches(argRefOrID)) >= 2
    /\ Cardinality({img.Target.Digest : img \in ShortIDMatches(argRefOrID)}) = 1
    /\ results[1].err = NoErr
    /\ results[2].err = NoErr
    /\ results[1].img # results[2].img

C9_WitnessAmbiguous ==
    /\ IsShortHex(argRefOrID)
    /\ argFault = "none"
    /\ Len(results) > 0
    /\ Cardinality({img.Target.Digest : img \in ShortIDMatches(argRefOrID)}) >= 2
    /\ results[1] = Resolved(NoImage, NotFound(<<"ambiguous reference">>))

\* C10: for every kind of reference, when a platform is given and no engine
\* call fails, a resolveImage call that reaches a record succeeds exactly
\* when a platform reachable from the record's target equals the given one
\* (os, architecture, variant), and otherwise returns NotFound
\* "platform <p> not supported".
C10_PlatformFilterEveryKind ==
    \A i \in DOMAIN results :
        (argPlatform # NoPlatform /\ argFault = "none" /\ results[i].img # NoImage)
            => IF \E p \in Platforms(results[i].img.Target.Digest) : OnlyStrictMatch(argPlatform, p)
               THEN results[i].err = NoErr
               ELSE results[i].err = NotFound(<<"platform">> \o FormatPlatform(argPlatform)
                                                 \o <<"not supported">>)

(***************************************************************************)
(* Claims about the determinism of resolveImage.                           *)
(***************************************************************************)
\* C11: two resolveImage calls for one reference on one store return the
\* same outcome (the same record, or the same error), in whatever order the
\* engine lists the records.
C11_SameOutcomeInAnyOrder ==
    \A i, j \in DOMAIN results : results[i] = results[j]

\* C11, amended: two resolveImage calls for one reference on one store
\* return the same error or records with the same target; the name of the
\* record may differ with the order the engine lists the records in.
C11_SameTargetInAnyOrder ==
    \A i, j \in DOMAIN results :
        /\ results[i].err = results[j].err
        /\ results[i].img.Target = results[j].img.Target

\* C11 witness: two calls by digest prefix returned two records of one
\* digest under different names
C11_Witness ==
    /\ Len(results) = 2
    /\ argFault = "none"
    /\ IsShortHex(argRefOrID)
    /\ results[1].err = NoErr
    /\ results[2].err = NoErr
    /\ results[1].img.Name # results[2].img.Name
    /\ results[1].img.Target = results[2].img.Target

(***************************************************************************)
(* Claims about ImageService.LoadImage.                                    *)
(***************************************************************************)
LdReturned == ldPc = "returned"

\* the call made a call of this kind on the image of this name with this outcome
LdLogged(name, imgName, outcome) ==
    \E k \in DOMAIN ldCalls : ldCalls[k] = <<name, imgName, outcome>>

LdUnpackFailed == \E k \in DOMAIN ldCalls : ldCalls[k][1] = "Unpack" /\ ldCalls[k][3] = "error"

\* the position of the image of this name in imgs
LdPosition(imgName) == CHOOSE i \in DOMAIN ldImgs : ldImgs[i].Name = imgName

\* C12: when LoadImage returns, every image Import returned was already
\* unpacked or had an unpack attempted, and LoadImage returns an error
\* exactly when an unpack attempt returned an error.
C12_AllUnpackedOrAttempted ==
    LdReturned =>
        /\ \A i \in DOMAIN ldImgs :
               \/ ldImgs[i].Target.Digest \in unpacked
               \/ LdLogged("Unpack", ldImgs[i].Name, "error")
        /\ (ldErr # NoErr) <=> LdUnpackFailed

\* C12, amended: LoadImage returns an error exactly when Import or an
\* unpack attempt returned one; when it returns nil, every image Import
\* returned is unpacked (it was already, or the call unpacked it) or its
\* unpacked-check failed and it was skipped.
C12_AllUnpackedOrSkipped ==
    LdReturned =>
        /\ (ldErr # NoErr) <=> (LdLogged("Import", NoImage.Name, "error") \/ LdUnpackFailed)
        /\ ldErr = NoErr =>
               \A i \in DOMAIN ldImgs :
                   \/ ldImgs[i].Target.Digest \in unpacked
                   \/ LdLogged("IsUnpacked", ldImgs[i].Name, "error")

\* C12 witness: a call returned nil after it unpacked one image and skipped
\* another, whose check failed and which is still not unpacked
C12_Witness ==
    /\ LdReturned
    /\ ldErr = NoErr
    /\ \E i, j \in DOMAIN ldImgs :
        /\ LdLogged("Unpack", ldImgs[i].Name, "ok")
        /\ LdLogged("IsUnpacked", ldImgs[j].Name, "error")
        /\ ldImgs[j].Target.Digest \notin unpacked

\* C19: an Unpack that returns an error is the last call LoadImage makes:
\* LoadImage has returned that error wrapped as "failed to unpack image",
\* with no unpacked-check or unpack of a later image.
C19_UnpackFailureIsFatal ==
    \A k \in DOMAIN ldCalls :
        (ldCalls[k][1] = "Unpack" /\ ldCalls[k][3] = "error") =>
            /\ k = Len(ldCalls)
            /\ LdReturned
            /\ ldErr = Wrapf(<<"failed to unpack image">>, NewErr("Unpack"))

\* C19 witness: the unpack of an image failed while later images were left
C19_Witness ==
    /\ LdReturned
    /\ LdUnpackFailed
    /\ ldIdx + 1 < Len(ldImgs)
    /\ ErrorText(ldErr)[1] = "failed to unpack image"

\* C20: an image whose IsUnpacked check returned an error gets no unpack
\* attempt, the call goes on with the next image (or returns nil after the
\* last), and a call in which neither Import nor an Unpack failed returns nil.
C20_CheckFailureIsSkipped ==
    /\ \A k \in DOMAIN ldCalls :
        (ldCalls[k][1] = "IsUnpacked" /\ ldCalls[k][3] = "error") =>
            LET pos == LdPosition(ldCalls[k][2])
            IN  /\ ~LdLogged("Unpack", ldCalls[k][2], "ok")
                /\ ~LdLogged("Unpack", ldCalls[k][2], "error")
                /\ ldIdx >= pos
                /\ pos < Len(ldImgs) =>
                       \/ k = Len(ldCalls) /\ ldPc = "IsUnpacked" /\ ldIdx = pos
                       \/ k < Len(ldCalls) /\ ldCalls[k + 1][1] = "IsUnpacked"
                                           /\ ldCalls[k + 1][2] = ldImgs[pos + 1].Name
                /\ pos = Len(ldImgs) => (k = Len(ldCalls) /\ LdReturned /\ ldErr = NoErr)
    /\ (LdReturned /\ ~LdLogged("Import", NoImage.Name, "error") /\ ~LdUnpackFailed)
           => (ldErr = NoErr /\ ldIdx = Len(ldImgs))

\* C20 witness: the check of the first image failed, the second image was
\* unpacked and the call returned nil
C20_Witness ==
    /\ LdReturned
    /\ ldErr = NoErr
    /\ Len(ldImgs) >= 2
    /\ LdLogged("IsUnpacked", ldImgs[1].Name, "error")
    /\ LdLogged("Unpack", ldImgs[2].Name, "ok")

(***************************************************************************)
(* Claims about isRootfsChildOf and presentChildrenHandler.                *)
(***************************************************************************)
\* parentFS is a strict prefix of childFS
IsStrictPrefix(parentFS, childFS) ==
    /\ Len(childFS) > Len(parentFS)
    /\ SubSeq(childFS, 1, Len(parentFS)) = parentFS

\* childFS ends with the layers of parentFS
IsSuffix(parentFS, childFS) ==
    /\ Len(childFS) >= Len(parentFS)
    /\ SubSeq(childFS, Len(childFS) - Len(parentFS) + 1, Len(childFS)) = parentFS

\* C13: isRootfsChildOf(child, parent) is true exactly when the parent's
\* diff IDs are a strict prefix of the child's; it is false for equal lists,
\* for a child no longer than the parent, and for a child that only ends
\* with the parent's layers.
C13_TrueIffStrictPrefix ==
    rfResult # <<>> =>
        /\ rfResult[1] <=> IsStrictPrefix(rfParent, rfChild)
        /\ rfChild = rfParent => ~rfResult[1]
        /\ Len(rfChild) <= Len(rfParent) => ~rfResult[1]
        /\ (IsSuffix(rfParent, rfChild) /\ ~IsStrictPrefix(rfParent, rfChild)) => ~rfResult[1]

\* C13 witness: two additional layers make a child; the parent's layers
\* appended to other layers do not
C13_Witness ==
    /\ rfResult = <<TRUE>>
    /\ rfParent = <<"X", "Y", "Z">>
    /\ rfChild = <<"X", "Y", "Z", "A", "B">>

\* C18: applied to a descriptor, the handler returns no children and no
\* error when ReaderAt reports not-found, the error and no children when
\* ReaderAt fails otherwise, and else what the engine's Children returns.
C18_PresentChildren ==
    hdResult # <<>> =>
        LET e == ReaderAt(blobs, hdDesc, hdFault)
        IN  /\ IsNotFound(e) => hdResult[1] = Handled(<<>>, NoErr)
            /\ (e # NoErr /\ ~IsNotFound(e)) => hdResult[1] = Handled(<<>>, e)
            /\ e = NoErr => hdResult[1] = ChildrenOf(hdDesc, hdFault)

\* C18 witness: the subtree of an index whose blob is missing is pruned
C18_Witness ==
    /\ hdResult = <<Handled(<<>>, NoErr)>>
    /\ hdDesc.Digest = DigestIndex
    /\ DigestIndex \notin blobs
    /\ hdFault = "none"
    /\ Children(hdDesc.Digest) # <<>>

(***************************************************************************)
(* Claims about the temporary images of ExportImage.                       *)
(***************************************************************************)
\* the record the requested reference resolves to
ResolvedImage(refOrID) ==
    resolveImage(CHOOSE order \in Orders(Listed(images, refOrID)) : TRUE,
                 refOrID, NoPlatform, "none").img

\* the manifest children of an index whose blob the content store holds
PresentManifests(d) ==
    SelectSeq(Children(d), LAMBDA c : IsManifestType(c.MediaType) /\ c.Digest \in blobs)

\* the requested reference resolves to an index with a manifest child whose
\* blob is missing
ResolvesPartial(refOrID) ==
    LET r == resolveImage(CHOOSE order \in Orders(Listed(images, refOrID)) : TRUE,
                 refOrID, NoPlatform, "none")
    IN  /\ r.err = NoErr
        /\ IsIndexType(r.img.Target.MediaType)
        /\ \E i \in DOMAIN Children(r.img.Target.Digest) :
               /\ IsManifestType(Children(r.img.Target.Digest)[i].MediaType)
               /\ Children(r.img.Target.Digest)[i].Digest \notin blobs

\* the Convert calls of call p that created an image, in order
CreatedSeq(p) == SelectSeq(exCalls[p], LAMBDA c : c[1] = "Convert" /\ c[3])

\* how many of the first i instructions of call p export a manifest
ManifestOpts(p, i) == Cardinality({j \in 1..i : exOpts[p][j].kind = "manifest"})

LoggedNames(p, kind) ==
    LET q == SelectSeq(exCalls[p], LAMBDA c : c[1] = kind /\ c[2] # <<>>)
    IN  [i \in DOMAIN q |-> q[i][2]]

Reverse(q) == [i \in DOMAIN q |-> q[Len(q) + 1 - i]]

\* C15: in one ExportImage call every Convert comes before client.Export
\* and every Delete after it; the images created are at any moment those
\* still registered for deletion followed by those deleted, the latter in
\* reverse: deletion is registered on creation and runs last created first.
C15_CreateExportDeleteOrder ==
    \A p \in ExportCalls :
        /\ \A j, k \in DOMAIN exCalls[p] :
            /\ (exCalls[p][j][1] = "Convert" /\ exCalls[p][k][1] = "Export") => j < k
            /\ (exCalls[p][j][1] = "Export" /\ exCalls[p][k][1] = "Delete") => j < k
            /\ (exCalls[p][j][1] = "Convert" /\ exCalls[p][k][1] = "Delete") => j < k
        /\ LET created == [i \in DOMAIN CreatedSeq(p) |-> CreatedSeq(p)[i][2]]
               registered == SelectSeq(exDeferred[p], LAMBDA n : n # <<>>)
           IN  created = registered \o Reverse(LoggedNames(p, "Delete"))
        /\ ExReturned(p) => exDeferred[p] = <<>>

\* C15 witness: two temporary images were created, the archive was written,
\* and the second image was deleted before the first
C15_Witness ==
    /\ ExReturned("export1")
    /\ Len(CreatedSeq("export1")) = 2
    /\ \E k \in DOMAIN exCalls["export1"] : exCalls["export1"][k][1] = "Export"
    /\ LoggedNames("export1", "Delete")
           = <<CreatedSeq("export1")[2][2], CreatedSeq("export1")[1][2]>>

\* C17: when ExportImage returns after the planning of a reference failed,
\* it returns an error, client.Export was not called and nothing was
\* written, and no temporary image created for an earlier reference is left.
C17_PlanningFailureCleansUp ==
    \A p \in ExportCalls :
        (ExReturned(p) /\ exIdx[p] < Len(exNames[p])) =>
            /\ exErr[p] # NoErr
            /\ ExCallsOf(p, "Export") = <<>>
            /\ exArchive[p] = <<>>
            /\ \A name \in CreatedTmpNames(p) : ~Stored(name)

(***************************************************************************)
(* Claims about the order of the releases in Changes.                      *)
(***************************************************************************)
\* the engine call of this name was made, with this success
ChLogged(name, ok) == \E k \in DOMAIN calls : calls[k] = <<name, ok>>

\* every call of the first name comes before every call of the second
ChBefore(first, second) ==
    \A j, k \in DOMAIN calls : (calls[j][1] = first /\ calls[k][1] = second) => j < k

\* C16: in a Changes call the nested mount at root is released before the
\* outer mount at fs, which is released before the view is removed; once a
\* mount was established, the call exits only after these releases, on the
\* success path and on every error path.
C16_ReleaseOrder ==
    /\ ChBefore("unmount root", "unmount fs")
    /\ ChBefore("unmount fs", "Remove")
    /\ ChBefore("unmount root", "Remove")
    /\ ChLogged("Remove", TRUE) \/ ChLogged("Remove", FALSE) => mounted = {}
    /\ (Exited /\ ChLogged("mount root", TRUE)) =>
           /\ ChLogged("unmount root", TRUE)
           /\ ChLogged("unmount fs", TRUE)
           /\ ChLogged("Remove", TRUE) \/ ChLogged("Remove", FALSE)
    /\ (Exited /\ ChLogged("mount fs", TRUE)) =>
           /\ ChLogged("unmount fs", TRUE)
           /\ ChLogged("Remove", TRUE) \/ ChLogged("Remove", FALSE)

\* C16 witness: the diff failed with both mounts established, and the call
\* ended with the release of root, the release of fs and the removal
C16_Witness ==
    /\ Exited
    /\ ChLogged("ChangesDirs", FALSE)
    /\ Len(calls) >= 3
    /\ calls[Len(calls) - 2][1] = "unmount root"
    /\ calls[Len(calls) - 1][1] = "unmount fs"
    /\ calls[Len(calls)][1] = "Remove"

(***************************************************************************)
(* Claims about the results of Changes when only the removal fails.        *)
(***************************************************************************)
\* C21: when the mounts and the directory diff succeeded and the removal of
\* the view failed, Changes returns the removal error, as it is, together
\* with the computed change list.
C21_RemovalErrorWithChanges ==
    (Exited /\ Succeeded("ChangesDirs") /\ Failed("Remove")) =>
        /\ pc = "returned"
        /\ uerr # NoErr
        /\ err = uerr
        /\ changes = "changeList"

\* C21 witness: both mounts and the diff succeeded, the removal failed with
\* its own error and the call returned
C21_Witness ==
    /\ pc = "returned"
    /\ Succeeded("mount fs")
    /\ Succeeded("mount root")
    /\ Succeeded("ChangesDirs")
    /\ Failed("Remove")
    /\ err = NewErr("Remove")
    /\ changes = "changeList"

(***************************************************************************)
(* Claims about ExportImage calls that run at once.                        *)
(***************************************************************************)
\* the images call p deleted: the names of its Delete calls that succeeded
ExDeleted(p) ==
    {exCalls[p][i][2] : i \in {j \in DOMAIN exCalls[p] :
                                  exCalls[p][j][1] = "Delete" /\ exCalls[p][j][3]}}

\* call q has not finished exporting: it plans, or client.Export has not returned
ExExporting(q) == exPc[q] \in {"plan", "children", "probe", "convert", "export"}

\* C22: however concurrent ExportImage calls interleave, a call deletes only
\* temporary images it created itself; a temporary image stays in the store
\* as long as the call that created it has not finished exporting; and no
\* image that is not temporary is ever deleted.
C22_OnlyOwnTmpImagesDeleted ==
    /\ \A p \in ExportCalls :
        \A name \in ExDeleted(p) :
            /\ IsTmpExportName(name)
            /\ name \in CreatedTmpNames(p)
            /\ \A q \in ExportCalls \ {p} : name \notin CreatedTmpNames(q)
    /\ \A q \in ExportCalls :
        ExExporting(q) => \A name \in CreatedTmpNames(q) : Stored(name)
    /\ ExportStore \subseteq images

\* C22 witness: two calls export the same partially present index; the
\* first has deleted its temporary image while the second, which has
\* created its own, has not yet called client.Export
C22_Witness ==
    /\ exNames["export1"] = << <<"foo">> >>
    /\ exNames["export2"] = << <<"foo">> >>
    /\ ExDeleted("export1") # {}
    /\ exPc["export2"] = "export"
    /\ CreatedTmpNames("export2") # {}
    /\ \A name \in CreatedTmpNames("export2") : Stored(name)

====
